---- MODULE Spec2Model ----
(***************************************************************************)
(* The RHDA stack-analysis workflow of src/stackAnalysis.ts:               *)
(* generateRHDAReport -> triggerWebviewPanel -> executeStackAnalysis ->    *)
(* writeReportToFile / updateWebviewPanel.                                 *)
(*                                                                         *)
(* One action is one turn of the event loop: the code that runs from the   *)
(* completion of an awaited operation up to the next operation the run     *)
(* waits for.  Several invocations may be in flight at once; they share    *)
(* the singleton panel, the global configuration and the file system.      *)
(* The file system carries out fs.writeFile on its own, in two steps: it   *)
(* opens (and empties) the file, then writes the data from the start.      *)
(*                                                                         *)
(* A string that is a path is modelled as the sequence of its segments     *)
(* between "/" separators: "" is <<"">>, "/" is <<"","">>, "/a/b" is       *)
(* <<"","a","b">>, "a/" is <<"a","">>.                                     *)
(***************************************************************************)
EXTENDS Naturals, Sequences, FiniteSets

VARIABLES
  globalConfig,   \* the process-wide configuration object (config.ts)
  currentPanel,   \* DependencyReportPanel.currentPanel is defined
  panelLog,       \* the doUpdatePanel calls received, in order: <<run, data>>
  dirs,           \* the directories that exist
  files,          \* path :> content (a sequence of blocks), for the files that exist
  pc,             \* per invocation: where it is waiting
  uri,            \* per invocation: uri.fsPath
  resp,           \* per invocation: the payload the analysis service resolved with
  err,            \* per invocation: the error in flight / the rejection reason
  log,            \* per invocation: the calls it has made, in program order
  doneBefore,     \* per invocation: the invocations settled when it started
  lastWriter,     \* the invocation whose write reached the report file last
  disturbed       \* the invocations in whose pending write another's has fallen

vars == <<globalConfig, currentPanel, panelLog, dirs, files, pc, uri, resp, err,
          log, doneBefore, lastWriter, disturbed>>

(***************************************************************************)
(* Bounds of the model.                                                    *)
(***************************************************************************)
NumRuns == 2
SingleRuns == 1

Runs == 1..NumRuns

Payloads == {"R1", "R2"}
None == "none"
NoPath == <<"-">>

AuthError == "AuthError"
ServiceError == "E"
MkdirError == "EACCES"
WriteError == "ENOSPC"

(***************************************************************************)
(* path.basename / path.dirname (POSIX flavour) on segment sequences.      *)
(***************************************************************************)
LastNonEmpty(p) ==
  IF \E i \in 1..Len(p) : p[i] # ""
    THEN CHOOSE i \in 1..Len(p) :
           p[i] # "" /\ \A j \in (i+1)..Len(p) : p[j] = ""
    ELSE 0

basename(p) ==
  IF LastNonEmpty(p) = 0 THEN "" ELSE p[LastNonEmpty(p)]

dirname(p) ==
  LET j == LastNonEmpty(p) IN
  IF p = <<"">> THEN <<".">>
  ELSE IF j = 0 THEN <<"", "">>
  ELSE IF j = 1 THEN <<".">>
  ELSE LET pre == SubSeq(p, 1, j - 1) IN
       IF pre = <<"">> THEN <<"", "">>
       ELSE IF pre = <<"", "">> THEN <<"", "", "">>
       ELSE pre

(***************************************************************************)
(* generateRHDAReport: the allow-list and the validation.                  *)
(***************************************************************************)
supportedFiles == {"pom.xml", "package.json", "go.mod", "requirements.txt"}

\* JavaScript truthiness of a string: every string but "".
Truthy(p) == p # <<"">>

\* Faulty variant: the allow-list is matched against any segment of the path.
IsSupportedIgnoringDirs(fsPath) ==
  Truthy(fsPath) /\ \E i \in 1..Len(fsPath) : fsPath[i] \in supportedFiles

IsSupported(fsPath) ==
  Truthy(fsPath) /\ basename(fsPath) \in supportedFiles

UnsupportedMessage(fsPath) == <<"File ", fsPath, " is not supported!!">>

(***************************************************************************)
(* updateWebviewPanel: the data the panel's doUpdatePanel is called with.  *)
(***************************************************************************)
\* Faulty variant: the existence of the panel is not checked.
UpdateWebviewPanelUnchecked(panel, data) == <<data>>

UpdateWebviewPanel(panel, data) ==
  IF panel THEN <<data>> ELSE <<>>

(***************************************************************************)
(* The configuration (config.ts, constants.ts) as this file reads it.      *)
(***************************************************************************)
defaultRhdaReportFilePath == <<"", "tmp", "redhatDependencyAnalyticsReport.html">>
CustomReportFilePath == <<"", "out", "rhda", "report.html">>
RelativeReportFilePath == <<"report.html">>

Config(snyk, ossUser, ossToken, reportPath) ==
  [ telemetryId           |-> "telemetry-id",
    utmSource             |-> "vscode",
    matchManifestVersions |-> "true",
    exhortMvnPath         |-> "mvn",
    exhortNpmPath         |-> "npm",
    exhortGoPath          |-> "go",
    exhortPython3Path     |-> "python3",
    exhortPip3Path        |-> "pip3",
    exhortPythonPath      |-> "python",
    exhortPipPath         |-> "pip",
    exhortSnykToken       |-> snyk,
    exhortOSSIndexUser    |-> ossUser,
    exhortOSSIndexToken   |-> ossToken,
    rhdaReportFilePath    |-> reportPath ]

(***************************************************************************)
(* executeStackAnalysis: the option bag handed to stackAnalysisService.    *)
(***************************************************************************)
BaseKeys ==
  { "RHDA_TOKEN", "RHDA_SOURCE", "MATCH_MANIFEST_VERSIONS", "EXHORT_MVN_PATH",
    "EXHORT_NPM_PATH", "EXHORT_GO_PATH", "EXHORT_PYTHON3_PATH",
    "EXHORT_PIP3_PATH", "EXHORT_PYTHON_PATH", "EXHORT_PIP_PATH" }

OptionValue(cfg, k) ==
  CASE k = "RHDA_TOKEN"              -> cfg.telemetryId
    [] k = "RHDA_SOURCE"             -> cfg.utmSource
    [] k = "MATCH_MANIFEST_VERSIONS" -> cfg.matchManifestVersions
    [] k = "EXHORT_MVN_PATH"         -> cfg.exhortMvnPath
    [] k = "EXHORT_NPM_PATH"         -> cfg.exhortNpmPath
    [] k = "EXHORT_GO_PATH"          -> cfg.exhortGoPath
    [] k = "EXHORT_PYTHON3_PATH"     -> cfg.exhortPython3Path
    [] k = "EXHORT_PIP3_PATH"        -> cfg.exhortPip3Path
    [] k = "EXHORT_PYTHON_PATH"      -> cfg.exhortPythonPath
    [] k = "EXHORT_PIP_PATH"         -> cfg.exhortPipPath
    [] k = "EXHORT_SNYK_TOKEN"       -> cfg.exhortSnykToken
    [] k = "EXHORT_OSS_INDEX_USER"   -> cfg.exhortOSSIndexUser
    [] k = "EXHORT_OSS_INDEX_TOKEN"  -> cfg.exhortOSSIndexToken

\* Faulty variant: the OSS Index pair is included when either value is set.
OptionsEitherOss(cfg) ==
  LET keys == BaseKeys
        \cup (IF cfg.exhortSnykToken # "" THEN {"EXHORT_SNYK_TOKEN"} ELSE {})
        \cup (IF cfg.exhortOSSIndexUser # "" \/ cfg.exhortOSSIndexToken # ""
                THEN {"EXHORT_OSS_INDEX_USER", "EXHORT_OSS_INDEX_TOKEN"}
                ELSE {})
  IN [k \in keys |-> OptionValue(cfg, k)]

Options(cfg) ==
  LET keys == BaseKeys
        \cup (IF cfg.exhortSnykToken # "" THEN {"EXHORT_SNYK_TOKEN"} ELSE {})
        \cup (IF cfg.exhortOSSIndexUser # "" /\ cfg.exhortOSSIndexToken # ""
                THEN {"EXHORT_OSS_INDEX_USER", "EXHORT_OSS_INDEX_TOKEN"}
                ELSE {})
  IN [k \in keys |-> OptionValue(cfg, k)]

(***************************************************************************)
(* writeReportToFile: destination, directory creation, overwrite.          *)
(***************************************************************************)
\* Faulty variant: the configured report path is ignored.
ReportFilePathAlwaysDefault(cfg) == defaultRhdaReportFilePath

ReportFilePath(cfg) ==
  IF Truthy(cfg.rhdaReportFilePath)
    THEN cfg.rhdaReportFilePath
    ELSE defaultRhdaReportFilePath

\* The root and the working directory always exist.
BaseDirs == { <<"", "">>, <<".">> }

\* The directory d and the missing directories above it, down to level k.
AncestorsUpTo(d, k) ==
  { SubSeq(d, 1, i) : i \in (IF d[1] = "" THEN 2 ELSE 1)..k }

ExistsSync(d, ds) == d \in ds

\* Faulty variant: without { recursive: true } only the last level is created.
MkdirNotRecursive(d, ds) ==
  IF Len(d) <= 1 \/ SubSeq(d, 1, Len(d) - 1) \in ds \/ SubSeq(d, 1, Len(d) - 1) = <<"">>
    THEN ds \cup {d}
    ELSE ds

MkdirRecursive(d, ds) == ds \cup AncestorsUpTo(d, Len(d))

\* The content of a file is a sequence of blocks; the payloads differ in
\* length.
Image(data) == IF data = "R1" THEN <<data>> ELSE <<data, data>>

\* Faulty variant: the file is opened without truncation (flag "r+").
TruncateFileSkipped(fs, path) ==
  [q \in DOMAIN fs \cup {path} |->
     IF q = path /\ path \notin DOMAIN fs THEN <<>> ELSE fs[q]]

\* fs.writeFile opens the file with the default flag "w": the file is created
\* or emptied.
TruncateFile(fs, path) ==
  [q \in DOMAIN fs \cup {path} |-> IF q = path THEN <<>> ELSE fs[q]]

\* fs.writeFile then writes the data from the start of the file, over
\* whatever the file holds by then.
WriteFile(fs, path, data) ==
  LET old == IF path \in DOMAIN fs THEN fs[path] ELSE <<>>
      new == Image(data)
  IN [q \in DOMAIN fs \cup {path} |->
        IF q = path THEN new \o SubSeq(old, Len(new) + 1, Len(old)) ELSE fs[q]]

(***************************************************************************)
(* The calls an invocation makes, as entries of its log.                   *)
(***************************************************************************)
Ev(op, arg) == [op |-> op, arg |-> arg]

Updates(data) == [i \in 1..Len(data) |-> Ev("doUpdatePanel", data[i])]

Tagged(r, data) == [i \in 1..Len(data) |-> <<r, data[i]>>]

Terminal == {"resolved", "rejected"}

\* createOrShowWebviewPanel: afterwards a current panel exists.
CreateOrShowWebviewPanel(panel) == TRUE

(***************************************************************************)
(* The pieces of code between two waits.                                   *)
(***************************************************************************)
\* triggerWebviewPanel up to its await: authorization is requested.
\* Faulty variant: authorizeRHDA is not awaited.
TriggerWithoutAwait ==
  << Ev("authorizeRHDA", None), Ev("createOrShowWebviewPanel", None) >>

TriggerWebviewPanelCalls == << Ev("authorizeRHDA", None) >>

\* After authorization: the rest of triggerWebviewPanel, then
\* executeStackAnalysis up to the await on the analysis service.
\* Faulty variant: the analysis is started before the panel is shown.
AnalysisBeforePanel(fsPath, cfg) ==
  << Ev("withProgress", "EXT_TITLE"),
     Ev("report", "WIN_ANALYZING_DEPENDENCIES"),
     Ev("stackAnalysisService", [path |-> fsPath, options |-> Options(cfg)]),
     Ev("createOrShowWebviewPanel", None) >>

AfterAuthorization(fsPath, cfg) ==
  << Ev("createOrShowWebviewPanel", None),
     Ev("withProgress", "EXT_TITLE"),
     Ev("report", "WIN_ANALYZING_DEPENDENCIES"),
     Ev("stackAnalysisService", [path |-> fsPath, options |-> Options(cfg)]) >>

\* .catch(err => { p.report(failure); reject(err) }) of executeStackAnalysis,
\* whose rejection executeStackAnalysis rethrows.
\* Faulty variant: an error report is written when the analysis fails.
RemoteCatchWritingReport(e) ==
  [calls |-> << Ev("report", "WIN_FAILURE_DEPENDENCY_ANALYSIS"),
                Ev("writeFile", [path |-> defaultRhdaReportFilePath, data |-> "error"]) >>,
   error |-> e]

\* Faulty variant: the analysis is tried once more before giving up.
RemoteCatchRetrying(e) ==
  [calls |-> << Ev("stackAnalysisService", None),
                Ev("report", "WIN_FAILURE_DEPENDENCY_ANALYSIS") >>,
   error |-> e]

\* Faulty variant: the failure is not reported to the progress indicator.
RemoteCatchQuiet(e) == [calls |-> <<>>, error |-> e]

\* Faulty variant: the error is wrapped before it is passed on.
RemoteCatchWrapping(e) ==
  [calls |-> << Ev("report", "WIN_FAILURE_DEPENDENCY_ANALYSIS") >>,
   error |-> <<"wrapped", e>>]

RemoteCatch(e) ==
  [calls |-> << Ev("report", "WIN_FAILURE_DEPENDENCY_ANALYSIS") >>,
   error |-> e]

\* A call of updateWebviewPanel(data): the log entries it leaves and the data
\* that reaches the panel.
NoUpdate == [calls |-> <<>>, data |-> <<>>]

CallUpdateWebviewPanel(panel, data) ==
  [calls |-> << Ev("updateWebviewPanel", data) >>
               \o Updates(UpdateWebviewPanel(panel, data)),
   data  |-> UpdateWebviewPanel(panel, data)]

\* catch (error) { updateWebviewPanel('error'); throw (error); }
\* Faulty variant: the error is not rethrown.
GenerateCatchSwallowing(panel, e) ==
  [update |-> CallUpdateWebviewPanel(panel, "error"), rethrown |-> FALSE,
   error |-> e]

\* Faulty variant: the panel is not notified.
GenerateCatchSilent(panel, e) ==
  [update |-> NoUpdate, rethrown |-> TRUE, error |-> e]

GenerateCatch(panel, e) ==
  [update |-> CallUpdateWebviewPanel(panel, "error"), rethrown |-> TRUE,
   error |-> e]

\* The then-callback of executeStackAnalysis after the write has resolved.
\* Faulty variant: the panel is not updated.
AfterWriteNoUpdate(panel, data) == NoUpdate

AfterWrite(panel, data) == CallUpdateWebviewPanel(panel, data)

\* The same callback when the awaited write rejects: the await throws and
\* the statements after it are skipped.
\* Faulty variant: the write is not awaited, the update is made regardless.
AfterWriteRejectedNotAwaited(panel, data) == CallUpdateWebviewPanel(panel, data)

AfterWriteRejected(panel, data) == NoUpdate

\* A failure reaching generateRHDAReport's catch: the panel is told, the
\* promise settles.
Settle(r, calls, early, e) ==
  LET c == GenerateCatch(currentPanel, e) IN
  /\ log' = [log EXCEPT ![r] =
       @ \o calls \o early.calls \o c.update.calls
         \o << IF c.rethrown THEN Ev("rejected", c.error)
                             ELSE Ev("resolved", None) >>]
  /\ panelLog' = panelLog \o Tagged(r, early.data \o c.update.data)
  /\ pc' = [pc EXCEPT ![r] = IF c.rethrown THEN "rejected" ELSE "resolved"]
  /\ err' = [err EXCEPT ![r] = IF c.rethrown THEN c.error ELSE None]

(***************************************************************************)
(* Initial states.                                                         *)
(***************************************************************************)
Tokens(t) == {"", t}

\* Every combination of the credentials, and every kind of report path.
AllConfigs ==
  { Config(s, u, t, <<"">>) :
      s \in Tokens("snyk-token"), u \in Tokens("oss-user"),
      t \in Tokens("oss-token") }
  \cup { Config("", "", "", p) : p \in {CustomReportFilePath, RelativeReportFilePath} }

FewConfigs ==
  { Config("snyk-token", "oss-user", "oss-token", CustomReportFilePath) }

\* The report directories that may exist beforehand.
FewInitialDirs ==
  { BaseDirs,
    BaseDirs \cup { <<"", "tmp">>, <<"", "out">>, <<"", "out", "rhda">> } }

InitialDirs ==
  FewInitialDirs \cup { BaseDirs \cup { <<"", "tmp">>, <<"", "out">> } }

NoFiles == [q \in {} |-> <<>>]

\* A report directory that exists holds the report of an earlier session.
InitWith(configs, dirsets) ==
  /\ globalConfig \in configs
  /\ currentPanel = FALSE
  /\ panelLog = <<>>
  /\ dirs \in dirsets
  /\ files = IF dirname(ReportFilePath(globalConfig)) \in dirs
               THEN WriteFile(NoFiles, ReportFilePath(globalConfig), "R0")
               ELSE NoFiles
  /\ pc = [r \in Runs |-> "idle"]
  /\ uri = [r \in Runs |-> NoPath]
  /\ resp = [r \in Runs |-> None]
  /\ err = [r \in Runs |-> None]
  /\ log = [r \in Runs |-> <<>>]
  /\ doneBefore = [r \in Runs |-> {}]
  /\ lastWriter = 0
  /\ disturbed = {}

Init == InitWith(FewConfigs, FewInitialDirs)

\* Every configuration over the directories all present, and every kind of
\* report path over every set of directories.
InitSingle ==
  \/ InitWith(AllConfigs, {BaseDirs \cup { <<"", "tmp">>, <<"", "out">>,
                                          <<"", "out", "rhda">> }})
  \/ InitWith({ Config("", "", "", p) :
                  p \in {<<"">>, CustomReportFilePath, RelativeReportFilePath} },
              InitialDirs)

(***************************************************************************)
(* Actions.                                                                *)
(***************************************************************************)
\* generateRHDAReport(context, uri) is called: the validation, and for a
\* supported manifest triggerWebviewPanel up to the await on authorizeRHDA.
\* Invocations are numbered in the order they start.
Invoke(r, fsPath) ==
  /\ pc[r] = "idle"
  /\ \A q \in Runs : q < r => pc[q] # "idle"
  /\ uri' = [uri EXCEPT ![r] = fsPath]
  /\ doneBefore' = [doneBefore EXCEPT ![r] = {q \in Runs : pc[q] \in Terminal}]
  /\ IF IsSupported(fsPath)
       THEN /\ pc' = [pc EXCEPT ![r] = "authorizing"]
            /\ log' = [log EXCEPT ![r] = @ \o TriggerWebviewPanelCalls]
       ELSE /\ pc' = [pc EXCEPT ![r] = "resolved"]
            /\ log' = [log EXCEPT ![r] =
                 @ \o << Ev("showInformationMessage", UnsupportedMessage(fsPath)),
                         Ev("resolved", None) >>]
  /\ UNCHANGED <<globalConfig, currentPanel, panelLog, dirs, files, resp, err,
                 lastWriter, disturbed>>

\* authorizeRHDA resolves: the panel is created or shown, the progress scope
\* opens, the option bag is built and the analysis service is called.
AuthorizeResolve(r) ==
  /\ pc[r] = "authorizing"
  /\ currentPanel' = CreateOrShowWebviewPanel(currentPanel)
  /\ log' = [log EXCEPT ![r] =
       @ \o << Ev("authorized", None) >> \o AfterAuthorization(uri[r], globalConfig)]
  /\ pc' = [pc EXCEPT ![r] = "analyzing"]
  /\ UNCHANGED <<globalConfig, panelLog, dirs, files, uri, resp, err, doneBefore,
                 lastWriter, disturbed>>

\* authorizeRHDA rejects: triggerWebviewPanel rejects inside the try block of
\* generateRHDAReport.
AuthorizeReject(r) ==
  /\ pc[r] = "authorizing"
  /\ Settle(r, << Ev("authorizeFailed", AuthError) >>, NoUpdate, AuthError)
  /\ UNCHANGED <<globalConfig, currentPanel, dirs, files, uri, resp, doneBefore,
                 lastWriter, disturbed>>

\* stackAnalysisService resolves with data: writeReportToFile runs up to the
\* fs.writeFile call; the directory is created when it is missing.
ServiceResolve(r, data) ==
  LET path == ReportFilePath(globalConfig)
      dir  == dirname(path)
      need == ~ExistsSync(dir, dirs)
  IN
  /\ pc[r] = "analyzing"
  /\ resp' = [resp EXCEPT ![r] = data]
  /\ dirs' = IF need THEN MkdirRecursive(dir, dirs) ELSE dirs
  /\ log' = [log EXCEPT ![r] =
       @ \o << Ev("serviceResolved", data),
               Ev("report", "WIN_GENERATING_DEPENDENCIES") >>
         \o (IF need THEN << Ev("mkdirSync", dir) >> ELSE <<>>)
         \o << Ev("writeFile", [path |-> path, data |-> data]) >>]
  /\ pc' = [pc EXCEPT ![r] = "writing"]
  /\ UNCHANGED <<globalConfig, currentPanel, panelLog, files, uri, err, doneBefore,
                 lastWriter, disturbed>>

\* The same, but fs.mkdirSync throws after creating the directories down to
\* level k: the promise of writeReportToFile rejects.
ServiceResolveMkdirThrows(r, data, k) ==
  LET path == ReportFilePath(globalConfig)
      dir  == dirname(path)
      c    == RemoteCatch(MkdirError)
  IN
  /\ pc[r] = "analyzing"
  /\ ~ExistsSync(dir, dirs)
  /\ k < Len(dir)
  /\ resp' = [resp EXCEPT ![r] = data]
  /\ dirs' = dirs \cup AncestorsUpTo(dir, k)
  /\ Settle(r, << Ev("serviceResolved", data),
                  Ev("report", "WIN_GENERATING_DEPENDENCIES"),
                  Ev("mkdirSync", dir),
                  Ev("writeRejected", MkdirError) >> \o c.calls,
            AfterWriteRejected(currentPanel, data), c.error)
  /\ UNCHANGED <<globalConfig, currentPanel, files, uri, doneBefore, lastWriter, disturbed>>

\* stackAnalysisService rejects.
ServiceReject(r) ==
  LET c == RemoteCatch(ServiceError) IN
  /\ pc[r] = "analyzing"
  /\ Settle(r, << Ev("serviceRejected", ServiceError) >> \o c.calls, NoUpdate, c.error)
  /\ UNCHANGED <<globalConfig, currentPanel, dirs, files, uri, resp, doneBefore,
                 lastWriter, disturbed>>

\* The invocations whose write is under way: the file is open, or written
\* with the callback still to come.
InFlight == {q \in Runs : pc[q] \in {"opened", "written"} /\ err[q] = None}

\* The file system opens the report file for invocation r.
FsOpenFile(r) ==
  LET path == ReportFilePath(globalConfig) IN
  /\ pc[r] = "writing"
  /\ ExistsSync(dirname(path), dirs)
  /\ files' = TruncateFile(files, path)
  /\ lastWriter' = r
  /\ disturbed' = disturbed \cup (InFlight \ {r})
  /\ pc' = [pc EXCEPT ![r] = "opened"]
  /\ UNCHANGED <<globalConfig, currentPanel, panelLog, dirs, uri, resp, err, log,
                 doneBefore>>

\* The file system writes the data of invocation r; the callback is still to
\* come.
FsWriteFile(r) ==
  LET path == ReportFilePath(globalConfig) IN
  /\ pc[r] = "opened"
  /\ files' = WriteFile(files, path, resp[r])
  /\ lastWriter' = r
  /\ disturbed' = disturbed \cup (InFlight \ {r})
  /\ pc' = [pc EXCEPT ![r] = "written"]
  /\ UNCHANGED <<globalConfig, currentPanel, panelLog, dirs, uri, resp, err, log,
                 doneBefore>>

\* The write fails: the file could not be opened, or it was opened and the
\* data could not be written.
FsWriteFileFails(r, opened) ==
  /\ pc[r] = IF opened THEN "opened" ELSE "writing"
  /\ err' = [err EXCEPT ![r] = WriteError]
  /\ pc' = [pc EXCEPT ![r] = "written"]
  /\ UNCHANGED <<globalConfig, currentPanel, panelLog, dirs, files, uri, resp, log,
                 doneBefore, lastWriter, disturbed>>

\* Faulty variant: the callback ignores err, and the promise stays pending.
WriteFileCallbackDroppingError(e) == IF e # None THEN "pending" ELSE "resolve"

\* The callback of fs.writeFile: reject(err) on an error, resolve() otherwise.
WriteFileCallback(e) == IF e # None THEN "reject" ELSE "resolve"

\* The callback of fs.writeFile runs without error: the panel is updated, the
\* progress scope and the promise of generateRHDAReport resolve.
WriteCallback(r) ==
  LET u == AfterWrite(currentPanel, resp[r]) IN
  /\ pc[r] = "written"
  /\ WriteFileCallback(err[r]) = "resolve"
  /\ log' = [log EXCEPT ![r] =
       @ \o << Ev("writeResolved", None) >> \o u.calls
         \o << Ev("report", "WIN_SUCCESS_DEPENDENCY_ANALYSIS"),
               Ev("resolved", None) >>]
  /\ panelLog' = panelLog \o Tagged(r, u.data)
  /\ pc' = [pc EXCEPT ![r] = "resolved"]
  /\ disturbed' = disturbed \ {r}
  /\ UNCHANGED <<globalConfig, currentPanel, dirs, files, uri, resp, err, doneBefore,
                 lastWriter>>

\* The callback of fs.writeFile runs with an error.
WriteCallbackError(r) ==
  LET c == RemoteCatch(err[r]) IN
  /\ pc[r] = "written"
  /\ WriteFileCallback(err[r]) = "reject"
  /\ Settle(r, << Ev("writeRejected", err[r]) >> \o c.calls,
            AfterWriteRejected(currentPanel, resp[r]), c.error)
  /\ disturbed' = disturbed \ {r}
  /\ UNCHANGED <<globalConfig, currentPanel, dirs, files, uri, resp, doneBefore,
                 lastWriter>>

\* The user closes the panel: the panel disposes itself.
ClosePanel ==
  /\ currentPanel
  /\ currentPanel' = FALSE
  /\ UNCHANGED <<globalConfig, panelLog, dirs, files, pc, uri, resp, err, log,
                 doneBefore, lastWriter, disturbed>>

(***************************************************************************)
(* Specifications.                                                         *)
(***************************************************************************)
\* The manifests of the concurrent specification.
FewUris == { <<"", "ws", "pom.xml">>, <<"", "ws", "README.md">> }

\* The manifests of the single-invocation specification.
AllUris ==
  { <<"">>, <<"pom.xml">>, <<"", "ws", "package.json">>,
    <<"", "ws", "go.mod">>, <<"", "ws", "requirements.txt">>,
    <<"", "ws", "pom.xml", "">>, <<"", "ws", "POM.XML">>,
    <<"", "ws", "pom.xml.bak">>, <<"", "pom.xml", "build.gradle">>,
    <<"", "">> }

Steps(r) ==
  \/ AuthorizeResolve(r)
  \/ AuthorizeReject(r)
  \/ \E data \in Payloads : ServiceResolve(r, data)
  \/ \E data \in Payloads, k \in 0..3 : ServiceResolveMkdirThrows(r, data, k)
  \/ ServiceReject(r)
  \/ FsOpenFile(r)
  \/ FsWriteFile(r)
  \/ \E opened \in BOOLEAN : FsWriteFileFails(r, opened)
  \/ WriteCallback(r)
  \/ WriteCallbackError(r)

Next ==
  \/ \E r \in Runs, fsPath \in FewUris : Invoke(r, fsPath)
  \/ \E r \in Runs : Steps(r)
  \/ ClosePanel

Spec == Init /\ [][Next]_vars

\* Every pending authorization, analysis call and file write completes, and
\* the event loop runs the continuation that waits for it.
Completion == \A r \in Runs : WF_vars(Steps(r))

\* The liveness specification starts without the report directory.
InitLive == InitWith({Config("", "", "", CustomReportFilePath)}, {BaseDirs})

\* The panel decides what a notification delivers, never what happens next:
\* the liveness specification leaves its closing out.
NextLive ==
  \/ \E r \in Runs, fsPath \in FewUris : Invoke(r, fsPath)
  \/ \E r \in Runs : Steps(r)

SpecLive == InitLive /\ [][NextLive]_vars /\ Completion

\* One invocation at a time, SingleRuns of them, over every input.
NextSingle ==
  \/ \E r \in 1..SingleRuns, fsPath \in AllUris :
       (\A q \in Runs : pc[q] \in Terminal \cup {"idle"}) /\ Invoke(r, fsPath)
  \/ \E r \in Runs : Steps(r)
  \/ ClosePanel

SpecSingle == InitSingle /\ [][NextSingle]_vars

(***************************************************************************)
(* Reading the logs.                                                       *)
(***************************************************************************)
Has(r, op) == \E i \in DOMAIN log[r] : log[r][i].op = op

Count(r, op) == Cardinality({i \in DOMAIN log[r] : log[r][i].op = op})

Pos(r, op) == CHOOSE i \in DOMAIN log[r] : log[r][i].op = op

Arg(r, op) == log[r][Pos(r, op)].arg

\* The positions in the log of invocation r of the call op with argument arg.
PosEv(r, op, arg) ==
  {i \in DOMAIN log[r] : log[r][i].op = op /\ log[r][i].arg = arg}

Reported(r, msg) ==
  \E i \in DOMAIN log[r] : log[r][i].op = "report" /\ log[r][i].arg = msg

PosReport(r, msg) ==
  CHOOSE i \in DOMAIN log[r] : log[r][i].op = "report" /\ log[r][i].arg = msg

Started(r) == pc[r] # "idle"

\* The stage of the workflow that a call belongs to ("" for a call within a
\* stage).
PhaseOf(e) ==
  IF e.op = "authorizeRHDA" THEN "Authorizing"
  ELSE IF e.op = "createOrShowWebviewPanel" THEN "PanelOpening"
  ELSE IF e.op = "stackAnalysisService" THEN "Analyzing"
  ELSE IF e.op \in {"mkdirSync", "writeFile"} THEN "Writing"
  ELSE IF e.op = "updateWebviewPanel"
    THEN (IF e.arg = "error" THEN "NotifyingError" ELSE "Notifying")
  ELSE IF e.op = "showInformationMessage" THEN "Rejected-Unsupported"
  ELSE IF e.op = "resolved" THEN "Done"
  ELSE IF e.op = "rejected" THEN "Failed"
  ELSE ""

\* The stages invocation r has gone through, in order.  The promise of an
\* unsupported invocation resolves within Rejected-Unsupported.
Phases(r) ==
  LET F[i \in 0..Len(log[r])] ==
        IF i = 0
          THEN (IF Started(r) THEN <<"Idle", "Validating">> ELSE <<"Idle">>)
          ELSE LET prev == F[i - 1]
                   last == prev[Len(prev)]
                   p    == PhaseOf(log[r][i])
               IN IF p = "" \/ p = last
                       \/ (last = "Rejected-Unsupported" /\ log[r][i].op = "resolved")
                    THEN prev
                    ELSE Append(prev, p)
  IN F[Len(log[r])]

\* The data the panel received from invocation r, in order.
PanelData(r) ==
  LET F[i \in 0..Len(panelLog)] ==
        IF i = 0 THEN <<>>
        ELSE IF panelLog[i][1] = r THEN Append(F[i - 1], panelLog[i][2])
        ELSE F[i - 1]
  IN F[Len(panelLog)]

ReportFile == ReportFilePath(globalConfig)

\* The report file exists and holds exactly data.
FileHolds(data) == ReportFile \in DOMAIN files /\ files[ReportFile] = Image(data)

(***************************************************************************)
(* C1: for a manifest whose base name is not one of the four supported     *)
(* names (the empty path included), generateRHDAReport requests no         *)
(* authorization, opens no panel, calls no analysis service and writes no  *)
(* file; it shows exactly one informational message, which carries the     *)
(* file path, and its promise resolves.                                    *)
(***************************************************************************)
C1_UnsupportedIsNotified ==
  \A r \in Runs :
    Started(r) /\ basename(uri[r]) \notin
                    {"pom.xml", "package.json", "go.mod", "requirements.txt"}
    => /\ pc[r] = "resolved"
       /\ err[r] = None
       /\ log[r] = << Ev("showInformationMessage", UnsupportedMessage(uri[r])),
                      Ev("resolved", None) >>
       /\ PanelData(r) = <<>>
       /\ lastWriter # r

C1_Witness ==
  \E r \in Runs :
    /\ pc[r] = "resolved"
    /\ uri[r] = <<"", "pom.xml", "build.gradle">>
    /\ Count(r, "showInformationMessage") = 1

(***************************************************************************)
(* C2: in every run on a supported manifest authorization completes before *)
(* the panel is created or shown, the panel is created or shown before the *)
(* analysis service is called, and the service is never called in a run    *)
(* whose authorization has not completed successfully.                     *)
(***************************************************************************)
C2_AuthorizeThenPanelThenAnalysis ==
  \A r \in Runs :
    /\ Has(r, "createOrShowWebviewPanel")
         => Has(r, "authorized")
            /\ Pos(r, "authorized") < Pos(r, "createOrShowWebviewPanel")
    /\ Has(r, "stackAnalysisService")
         => /\ Has(r, "authorized") /\ ~Has(r, "authorizeFailed")
            /\ Has(r, "createOrShowWebviewPanel")
            /\ Pos(r, "authorizeRHDA") < Pos(r, "authorized")
            /\ Pos(r, "createOrShowWebviewPanel") < Pos(r, "stackAnalysisService")
            /\ Count(r, "stackAnalysisService") = 1
    /\ pc[r] = "analyzing" => Has(r, "stackAnalysisService")
    /\ pc[r] = "authorizing" => ~Has(r, "stackAnalysisService")

C2_Witness ==
  \E r \in Runs :
    /\ basename(uri[r]) = "requirements.txt"
    /\ Has(r, "stackAnalysisService")
    /\ Arg(r, "stackAnalysisService").path = uri[r]

(***************************************************************************)
(* C3 as stated: after a successful remote call returning R, when the      *)
(* promise resolves the report file holds exactly R and the panel has      *)
(* received exactly one update in that run, with R.                        *)
(***************************************************************************)
C3_Original ==
  [][\A r \in Runs :
       pc[r] = "written" /\ pc'[r] = "resolved"
       => /\ FileHolds(Arg(r, "serviceResolved"))'
          /\ PanelData(r)' = << Arg(r, "serviceResolved") >>]_vars

(***************************************************************************)
(* C3 amended: when the promise resolves, the report file holds exactly R  *)
(* unless another invocation opened or wrote the file while this run's     *)
(* write was under way or after it, and the panel has received from this   *)
(* run one update, with R, if a panel existed when the write completed and *)
(* none if it had been closed.                                             *)
(***************************************************************************)
C3_ResolvedAfterWriteAndUpdate ==
  [][\A r \in Runs :
       pc[r] = "written" /\ pc'[r] = "resolved"
       => /\ r \notin disturbed => FileHolds(Arg(r, "serviceResolved"))'
          /\ PanelData(r) = <<>>
          /\ PanelData(r)' = IF currentPanel THEN << Arg(r, "serviceResolved") >>
                                             ELSE <<>>]_vars

C3_Witness ==
  \E r \in Runs :
    /\ pc[r] = "resolved"
    /\ Has(r, "serviceResolved")
    /\ FileHolds(Arg(r, "serviceResolved"))
    /\ PanelData(r) = << Arg(r, "serviceResolved") >>

(***************************************************************************)
(* C4 as stated: when the remote call rejects with E the panel receives    *)
(* exactly one update in that run, the string "error", and the promise of  *)
(* generateRHDAReport rejects with E itself.                               *)
(***************************************************************************)
C4_Original ==
  [][\A r \in Runs :
       pc[r] = "analyzing" /\ Has(r, "serviceRejected")'
       => /\ pc'[r] = "rejected"
          /\ err'[r] = Arg(r, "serviceRejected")'
          /\ PanelData(r)' = << "error" >>]_vars

(***************************************************************************)
(* C4 amended: when the remote call rejects with E the promise rejects     *)
(* with E itself, and the panel receives from this run one update, the     *)
(* string "error", if a panel exists at that moment and none otherwise.    *)
(***************************************************************************)
C4_RemoteRejectionRethrown ==
  [][\A r \in Runs :
       pc[r] = "analyzing" /\ Has(r, "serviceRejected")'
       => /\ pc'[r] = "rejected"
          /\ err'[r] = Arg(r, "serviceRejected")'
          /\ err'[r] = ServiceError
          /\ PanelData(r)' = IF currentPanel THEN << "error" >> ELSE <<>>]_vars

C4_Witness ==
  \E r \in Runs :
    /\ pc[r] = "rejected"
    /\ Has(r, "serviceRejected")
    /\ err[r] = ServiceError
    /\ PanelData(r) = << "error" >>

(***************************************************************************)
(* C5 as stated: when the remote call returned R but creating the          *)
(* directory or writing the file fails with W, the panel receives the      *)
(* "error" sentinel, never R, and the promise rejects with W.              *)
(***************************************************************************)
C5_Original ==
  [][\A r \in Runs :
       ~Has(r, "writeRejected") /\ Has(r, "writeRejected")'
       => /\ pc'[r] = "rejected"
          /\ err'[r] = Arg(r, "writeRejected")'
          /\ PanelData(r)' = << "error" >>]_vars

(***************************************************************************)
(* C5 amended: in that case the promise rejects with W, the panel never    *)
(* receives R from this run, and it receives the "error" sentinel if a     *)
(* panel exists at that moment (nothing if it has been closed).            *)
(***************************************************************************)
C5_WriteFailureRethrown ==
  [][\A r \in Runs :
       ~Has(r, "writeRejected") /\ Has(r, "writeRejected")'
       => /\ pc'[r] = "rejected"
          /\ err'[r] = Arg(r, "writeRejected")'
          /\ err'[r] = IF pc[r] = "written" THEN err[r] ELSE MkdirError
          /\ err'[r] \in {WriteError, MkdirError}
          /\ Has(r, "serviceResolved")'
          /\ PanelData(r)' = IF currentPanel THEN << "error" >> ELSE <<>>]_vars

C5_Witness ==
  \E r \in Runs :
    /\ pc[r] = "rejected"
    /\ Has(r, "writeFile")
    /\ err[r] = WriteError
    /\ PanelData(r) = << "error" >>

(***************************************************************************)
(* C6 as stated: when authorization fails the failure is not intercepted   *)
(* by the workflow's error handler, so no "error" sentinel reaches the     *)
(* panel, and the run aborts before any progress is reported, without      *)
(* opening the panel, calling the analysis service or writing the file.    *)
(***************************************************************************)
C6_Original ==
  \A r \in Runs :
    Has(r, "authorizeFailed")
    => /\ ~Has(r, "updateWebviewPanel")
       /\ PanelData(r) = <<>>
       /\ ~Has(r, "report") /\ ~Has(r, "withProgress")
       /\ ~Has(r, "createOrShowWebviewPanel")
       /\ ~Has(r, "stackAnalysisService")
       /\ ~Has(r, "writeFile")

(***************************************************************************)
(* C6 amended: when authorization fails the failure is caught by the catch *)
(* block of generateRHDAReport, which sends the "error" sentinel to a      *)
(* panel left open by an earlier invocation (nothing if no panel exists)   *)
(* and rethrows the same error; no progress is reported, this run does not *)
(* open the panel, the analysis service is not called and neither the      *)
(* report file nor its directory is touched.                               *)
(***************************************************************************)
C6_AuthorizationFailureCaught ==
  [][\A r \in Runs :
       pc[r] = "authorizing" /\ pc'[r] \in Terminal
       => /\ pc'[r] = "rejected"
          /\ err'[r] = AuthError
          /\ Arg(r, "authorizeFailed")' = AuthError
          /\ Count(r, "updateWebviewPanel")' = 1
          /\ Arg(r, "updateWebviewPanel")' = "error"
          /\ PanelData(r)' = IF currentPanel THEN << "error" >> ELSE <<>>
          /\ ~Has(r, "report")' /\ ~Has(r, "withProgress")'
          /\ ~Has(r, "createOrShowWebviewPanel")'
          /\ ~Has(r, "stackAnalysisService")'
          /\ ~Has(r, "writeFile")' /\ ~Has(r, "mkdirSync")'
          /\ UNCHANGED <<currentPanel, files, dirs, lastWriter>>]_vars

C6_Witness ==
  \E r \in Runs :
    /\ pc[r] = "rejected"
    /\ Has(r, "authorizeFailed")
    /\ PanelData(r) = << "error" >>

(***************************************************************************)
(* C7: the promise of generateRHDAReport for a supported manifest resolves *)
(* only if authorization, the remote call and the report write all         *)
(* succeeded in that run; if any of them fails the promise rejects.        *)
(***************************************************************************)
C7_NoFailureDiscarded ==
  \A r \in Runs :
    Has(r, "authorizeRHDA")
    => /\ pc[r] = "resolved"
            => /\ Has(r, "authorized") /\ ~Has(r, "authorizeFailed")
               /\ Has(r, "serviceResolved") /\ ~Has(r, "serviceRejected")
               /\ Has(r, "writeResolved") /\ ~Has(r, "writeRejected")
               /\ err[r] = None
       /\ Has(r, "authorizeFailed") \/ Has(r, "serviceRejected")
            \/ Has(r, "writeRejected")
            => pc[r] = "rejected" /\ err[r] # None
       /\ pc[r] = "written" /\ err[r] # None => ~Has(r, "writeResolved")

C7_Witness ==
  \E r, q \in Runs :
    /\ pc[r] = "resolved" /\ Has(r, "writeResolved")
    /\ pc[q] = "rejected" /\ Has(q, "writeRejected")

(***************************************************************************)
(* C8: in the option bag passed to the analysis service the Snyk token key *)
(* is present iff the configured token is non-empty; the OSS Index user    *)
(* and token keys are both present iff both configured values are          *)
(* non-empty, and otherwise neither is present.                            *)
(***************************************************************************)
C8_OptionalCredentials ==
  \A r \in Runs :
    Has(r, "stackAnalysisService")
    => LET keys == DOMAIN Arg(r, "stackAnalysisService").options
           bag  == Arg(r, "stackAnalysisService").options
       IN /\ "EXHORT_SNYK_TOKEN" \in keys <=> globalConfig.exhortSnykToken # ""
          /\ "EXHORT_SNYK_TOKEN" \in keys
               => bag["EXHORT_SNYK_TOKEN"] = globalConfig.exhortSnykToken
          /\ IF globalConfig.exhortOSSIndexUser # ""
                /\ globalConfig.exhortOSSIndexToken # ""
               THEN /\ {"EXHORT_OSS_INDEX_USER", "EXHORT_OSS_INDEX_TOKEN"} \subseteq keys
                    /\ bag["EXHORT_OSS_INDEX_USER"] = globalConfig.exhortOSSIndexUser
                    /\ bag["EXHORT_OSS_INDEX_TOKEN"] = globalConfig.exhortOSSIndexToken
               ELSE {"EXHORT_OSS_INDEX_USER", "EXHORT_OSS_INDEX_TOKEN"} \cap keys = {}

C8_Witness ==
  \E r \in Runs :
    /\ Has(r, "stackAnalysisService")
    /\ globalConfig.exhortOSSIndexUser # ""
    /\ globalConfig.exhortOSSIndexToken = ""
    /\ globalConfig.exhortSnykToken # ""
    /\ "EXHORT_SNYK_TOKEN" \in DOMAIN Arg(r, "stackAnalysisService").options

(***************************************************************************)
(* C9: when the workflow runs twice in sequence on the same manifest, the  *)
(* second run starting after the first has resolved, with payloads R1 then *)
(* R2, the report file afterwards holds exactly R2: the write overwrites.  *)
(***************************************************************************)
C9_SecondRunOverwrites ==
  \A a, b \in Runs :
    /\ a # b /\ a \in doneBefore[b] /\ uri[a] = uri[b]
    /\ pc[a] = "resolved" /\ Has(a, "writeResolved")
    /\ pc[b] = "resolved" /\ Has(b, "writeResolved")
    /\ \A c \in Runs \ {a, b} : pc[c] = "idle" \/ c \in doneBefore[b]
    => FileHolds(Arg(b, "serviceResolved"))

C9_Witness ==
  \E a, b \in Runs :
    /\ a \in doneBefore[b] /\ uri[a] = uri[b]
    /\ pc[a] = "resolved" /\ Has(a, "writeResolved")
    /\ pc[b] = "resolved" /\ Has(b, "writeResolved")
    /\ Arg(a, "serviceResolved") = "R1"
    /\ Arg(b, "serviceResolved") = "R2"
    /\ FileHolds("R2")

(***************************************************************************)
(* C10: writeReportToFile writes to the configured report path, or to the  *)
(* built-in default when none is configured; a missing directory is        *)
(* created, with the missing directories above it, before the write is     *)
(* issued, so that the write can succeed; when the directory exists no     *)
(* creation is attempted and the write is issued all the same.             *)
(***************************************************************************)
C10_DirectoryEnsuredBeforeWrite ==
  [][\A r \in Runs :
       LET dest == IF globalConfig.rhdaReportFilePath # <<"">>
                     THEN globalConfig.rhdaReportFilePath
                     ELSE <<"", "tmp", "redhatDependencyAnalyticsReport.html">>
           dir  == SubSeq(dest, 1, Len(dest) - 1)
           here == IF dir = <<>> THEN <<".">> ELSE dir
       IN
       /\ pc[r] = "analyzing" /\ Has(r, "serviceResolved")'
            => /\ here \in dirs
                    => /\ pc'[r] = "writing"
                       /\ ~Has(r, "mkdirSync")'
                       /\ dirs' = dirs
               /\ here \notin dirs
                    => Has(r, "mkdirSync")' /\ Arg(r, "mkdirSync")' = here
               /\ pc'[r] = "writing"
                    => /\ Arg(r, "writeFile")'.path = dest
                       /\ Arg(r, "writeFile")'.data = Arg(r, "serviceResolved")'
                       /\ \A k \in 1..Len(here) :
                            SubSeq(here, 1, k) # <<"">> => SubSeq(here, 1, k) \in dirs'
                       /\ dirs \subseteq dirs'
                       /\ Has(r, "mkdirSync")'
                            => Pos(r, "mkdirSync")' < Pos(r, "writeFile")'
       /\ pc[r] \in {"writing", "opened"}
            => /\ here \in dirs
               /\ pc[r] = "opened" /\ pc'[r] = "written" /\ err'[r] = None
                    => dest \in DOMAIN files' /\ files'[dest] = Image(resp[r])]_vars

C10_Witness ==
  \E r \in Runs :
    /\ pc[r] = "resolved"
    /\ Has(r, "mkdirSync")
    /\ Arg(r, "mkdirSync") = <<"", "out", "rhda">>
    /\ {<<"", "out">>, <<"", "out", "rhda">>} \subseteq dirs
    /\ FileHolds(Arg(r, "serviceResolved"))

(***************************************************************************)
(* C11: the progress messages of a run come in order.  "Analyzing" is the  *)
(* first message and precedes the analysis service call; "generating" is   *)
(* reported only after the service resolved and before the directory and   *)
(* the file are touched; "success" only after the write completed and      *)
(* updateWebviewPanel was called with the payload; "failure" whenever the  *)
(* service rejects; no run reports both "success" and "failure".           *)
(***************************************************************************)
C11_ProgressNarration ==
  \A r \in Runs :
    LET analyzing  == PosReport(r, "WIN_ANALYZING_DEPENDENCIES")
        generating == PosReport(r, "WIN_GENERATING_DEPENDENCIES")
        success    == PosReport(r, "WIN_SUCCESS_DEPENDENCY_ANALYSIS")
        failure    == PosReport(r, "WIN_FAILURE_DEPENDENCY_ANALYSIS")
        called     == Pos(r, "stackAnalysisService")
        answered   == Pos(r, "serviceResolved")
        written    == Pos(r, "writeResolved")
    IN
    (Has(r, "report") \/ Has(r, "stackAnalysisService"))
    => /\ Has(r, "report") /\ Arg(r, "report") = "WIN_ANALYZING_DEPENDENCIES"
       /\ Has(r, "stackAnalysisService") /\ analyzing < called
       /\ Has(r, "serviceResolved")
            <=> Reported(r, "WIN_GENERATING_DEPENDENCIES")
       /\ Has(r, "serviceResolved")
            => /\ called < answered /\ answered < generating
               /\ Has(r, "mkdirSync") => generating < Pos(r, "mkdirSync")
               /\ Has(r, "writeFile") => generating < Pos(r, "writeFile")
       /\ Reported(r, "WIN_SUCCESS_DEPENDENCY_ANALYSIS")
            => /\ Has(r, "writeResolved")
               /\ Pos(r, "writeFile") < written /\ written < success
               /\ \E i \in DOMAIN log[r] :
                    /\ log[r][i].op = "updateWebviewPanel"
                    /\ log[r][i].arg = Arg(r, "serviceResolved")
                    /\ written < i /\ i < success
               /\ success < Pos(r, "resolved")
               /\ ~Reported(r, "WIN_FAILURE_DEPENDENCY_ANALYSIS")
       /\ pc[r] = "resolved" => Reported(r, "WIN_SUCCESS_DEPENDENCY_ANALYSIS")
       /\ Has(r, "serviceRejected")
            => /\ Reported(r, "WIN_FAILURE_DEPENDENCY_ANALYSIS")
               /\ Pos(r, "serviceRejected") < failure
               /\ failure < Pos(r, "rejected")

C11_Witness ==
  \E r \in Runs :
    /\ pc[r] = "resolved"
    /\ Has(r, "mkdirSync")
    /\ Reported(r, "WIN_ANALYZING_DEPENDENCIES")
    /\ Reported(r, "WIN_GENERATING_DEPENDENCIES")
    /\ Reported(r, "WIN_SUCCESS_DEPENDENCY_ANALYSIS")
    /\ PanelData(r) = << resp[r] >>

(***************************************************************************)
(* C12 as stated: an invocation goes only Idle, Validating, Authorizing,   *)
(* PanelOpening, Analyzing and then Writing, Notifying, Done or            *)
(* NotifyingError, Failed, with Rejected-Unsupported reached from          *)
(* Validating; in particular NotifyingError is entered from Analyzing      *)
(* only.                                                                   *)
(***************************************************************************)
C12_Original ==
  \A r \in Runs :
    \A i \in 1..(Len(Phases(r)) - 1) :
      <<Phases(r)[i], Phases(r)[i + 1]>> \in
        { <<"Idle", "Validating">>, <<"Validating", "Authorizing">>,
          <<"Validating", "Rejected-Unsupported">>,
          <<"Authorizing", "PanelOpening">>, <<"PanelOpening", "Analyzing">>,
          <<"Analyzing", "Writing">>, <<"Writing", "Notifying">>,
          <<"Notifying", "Done">>, <<"Analyzing", "NotifyingError">>,
          <<"NotifyingError", "Failed">> }

(***************************************************************************)
(* C12 amended: the same transitions and, besides them, Authorizing to     *)
(* NotifyingError (authorization fails) and Writing to NotifyingError (the *)
(* directory creation or the write fails) are the only ones; a settled     *)
(* invocation is in Done, Failed or Rejected-Unsupported and makes no      *)
(* further call, and an invocation in any other stage after Idle has a     *)
(* step to take.                                                           *)
(***************************************************************************)
C12_WorkflowTransitions ==
  \A r \in Runs :
    LET ph == Phases(r)
        n  == Len(ph)
    IN
    /\ { <<ph[i], ph[i + 1]>> : i \in 1..(n - 1) } \subseteq
         { <<"Idle", "Validating">>, <<"Validating", "Authorizing">>,
           <<"Validating", "Rejected-Unsupported">>,
           <<"Authorizing", "PanelOpening">>, <<"PanelOpening", "Analyzing">>,
           <<"Analyzing", "Writing">>, <<"Writing", "Notifying">>,
           <<"Notifying", "Done">>, <<"Analyzing", "NotifyingError">>,
           <<"NotifyingError", "Failed">>,
           <<"Authorizing", "NotifyingError">>, <<"Writing", "NotifyingError">> }
    /\ pc[r] \in Terminal
         <=> ph[n] \in {"Done", "Failed", "Rejected-Unsupported"}
    /\ \A i \in DOMAIN log[r] :
         log[r][i].op \in {"resolved", "rejected"} => i = Len(log[r])
    /\ Started(r) /\ pc[r] \notin Terminal => ENABLED Steps(r)

C12_Witness ==
  \E r \in Runs :
    /\ pc[r] = "rejected"
    /\ Phases(r) = <<"Idle", "Validating", "Authorizing", "PanelOpening",
                     "Analyzing", "Writing", "NotifyingError", "Failed">>

(***************************************************************************)
(* C13: when every pending authorization, analysis call and file write     *)
(* completes, every invocation that was started settles, and with it the   *)
(* progress scope it opened, whose promise is the one that settles; an     *)
(* invocation settles once, as resolved or as rejected, and stays settled. *)
(***************************************************************************)
C13_EveryInvocationSettles ==
  /\ \A r \in Runs : Started(r) ~> pc[r] \in Terminal
  /\ [][\A r \in Runs :
          pc[r] \in Terminal => pc'[r] = pc[r] /\ log'[r] = log[r]]_vars

C13_Witness ==
  \E a, b \in Runs :
    /\ pc[a] = "resolved" /\ Has(a, "withProgress") /\ Has(a, "writeResolved")
    /\ pc[b] = "rejected" /\ Has(b, "withProgress") /\ Has(b, "writeRejected")

(***************************************************************************)
(* C14: nothing is retried.  No step of an invocation calls authorizeRHDA, *)
(* the analysis service, mkdirSync or fs.writeFile more than once, none    *)
(* calls one of them that the invocation has called before, and none calls *)
(* any of them after the authorization, the analysis or the write failed.  *)
(***************************************************************************)
C14_NoRetries ==
  [][\A r \in Runs :
       log'[r] # log[r]
       => \A op \in {"authorizeRHDA", "stackAnalysisService", "mkdirSync", "writeFile"} :
            /\ Count(r, op)' <= 1
            /\ Has(r, op) => Count(r, op)' = Count(r, op)
            /\ Has(r, op)' /\ ~Has(r, op)
                 => \A f \in {"authorizeFailed", "serviceRejected", "writeRejected"} :
                      Has(r, f)' => Pos(r, op)' < Pos(r, f)']_vars

C14_Witness ==
  \E r \in Runs :
    /\ pc[r] = "rejected" /\ Has(r, "writeRejected")
    /\ Count(r, "stackAnalysisService") = 1
    /\ Count(r, "writeFile") = 1
    /\ err[r] = WriteError

(***************************************************************************)
(* C15: a notification attempted while no panel exists is a silent no-op.  *)
(* A run whose write completed resolves, having reported "success", with   *)
(* no update delivered; a failing run rejects with the error of the        *)
(* failure itself, having called updateWebviewPanel("error"), with no      *)
(* update delivered.  The panel is looked up at each notification: while   *)
(* one exists the update is delivered, whatever happened before.           *)
(***************************************************************************)
C15_ClosedPanelIsSilent ==
  [][\A r \in Runs :
       /\ ~currentPanel /\ pc[r] = "written" /\ pc'[r] = "resolved"
            => /\ Has(r, "writeResolved")'
               /\ PosEv(r, "updateWebviewPanel", resp[r])' # {}
               /\ Reported(r, "WIN_SUCCESS_DEPENDENCY_ANALYSIS")'
               /\ PanelData(r)' = <<>>
               /\ panelLog' = panelLog
               /\ err'[r] = None
       /\ ~currentPanel /\ pc[r] \notin Terminal /\ pc'[r] = "rejected"
            => /\ \E f \in {"authorizeFailed", "serviceRejected", "writeRejected"} :
                    /\ Has(r, f)'
                    /\ Arg(r, "rejected")' = Arg(r, f)'
                    /\ err'[r] = Arg(r, f)'
               /\ PosEv(r, "updateWebviewPanel", "error")' # {}
               /\ PanelData(r)' = <<>>
               /\ panelLog' = panelLog
       /\ currentPanel /\ Has(r, "authorizeRHDA") /\ pc[r] \notin Terminal
            => /\ pc'[r] = "resolved" => panelLog' = Append(panelLog, <<r, resp[r]>>)
               /\ pc'[r] = "rejected" => panelLog' = Append(panelLog, <<r, "error">>)]_vars

C15_Witness ==
  \E a, b \in Runs :
    /\ ~currentPanel
    /\ pc[a] = "resolved" /\ Has(a, "writeResolved")
    /\ Reported(a, "WIN_SUCCESS_DEPENDENCY_ANALYSIS")
    /\ PanelData(a) = <<>>
    /\ pc[b] = "rejected" /\ Has(b, "serviceRejected")
    /\ err[b] = ServiceError
    /\ PanelData(b) = <<>>
    /\ panelLog = <<>>

(***************************************************************************)
(* C16 as stated: once overlapping invocations have all settled, the       *)
(* report file holds what the last writer among them produced.             *)
(***************************************************************************)
C16_Original ==
  (/\ \A r \in Runs : pc[r] \in Terminal
   /\ \E a, b \in Runs : a < b /\ a \notin doneBefore[b]
   /\ lastWriter # 0)
  => (Has(lastWriter, "writeResolved") => FileHolds(resp[lastWriter]))

(***************************************************************************)
(* C16 amended: overlapping invocations run independently.  A started,     *)
(* unsettled invocation always has a step to take, whatever the others are *)
(* doing, and a step changes the progress of one invocation only.  The     *)
(* report file changes only when some invocation's fs.writeFile opens or   *)
(* writes it; a write that lands leaves exactly that invocation's payload  *)
(* unless another invocation opened or wrote the file since this one       *)
(* opened it.  The panel changes only by receiving the payload or "error"  *)
(* of the invocation that settles, after whatever it showed before.        *)
(***************************************************************************)
C16_IndependentLastWriterWins ==
  [][/\ \A r \in Runs : Started(r) /\ pc[r] \notin Terminal => ENABLED Steps(r)
     /\ Cardinality({r \in Runs : pc'[r] # pc[r] \/ log'[r] # log[r]
                                     \/ err'[r] # err[r] \/ resp'[r] # resp[r]}) <= 1
     /\ files' # files
          => \E r \in Runs :
               /\ lastWriter' = r
               /\ \/ pc[r] = "writing" /\ pc'[r] = "opened" /\ files'[ReportFile] = <<>>
                  \/ /\ pc[r] = "opened" /\ pc'[r] = "written"
                     /\ r \notin disturbed => FileHolds(resp[r])'
     /\ panelLog' # panelLog
          => \E r \in Runs :
               /\ pc[r] \notin Terminal /\ pc'[r] \in Terminal
               /\ panelLog' = Append(panelLog,
                                 <<r, IF pc'[r] = "resolved" THEN resp[r] ELSE "error">>)]_vars

C16_Witness ==
  \E a, b \in Runs :
    /\ a # b /\ a \notin doneBefore[b] /\ b \notin doneBefore[a]
    /\ pc[a] = "resolved" /\ pc[b] = "rejected"
    /\ Has(b, "serviceRejected")
    /\ panelLog = << <<a, resp[a]>>, <<b, "error">> >>
    /\ FileHolds(resp[a])

(***************************************************************************)
(* C17 as stated: a step that is not a continuation of invocation r (a     *)
(* step of another invocation, the closing of the panel, the file system   *)
(* at work) happens, while r is under way, only when r waits for the       *)
(* analysis service or for the file write.                                 *)
(***************************************************************************)
C17_Original ==
  [][\A r \in Runs :
       Started(r) /\ pc[r] \notin Terminal /\ log'[r] = log[r]
       => log[r][Len(log[r])].op \in {"stackAnalysisService", "writeFile"}]_vars

(***************************************************************************)
(* C17 amended: an invocation under way is suspended at the await on       *)
(* authorizeRHDA, on the analysis service or on the file write, and        *)
(* nowhere else: whenever anything else can take a step, the last call the *)
(* invocation made is the one it waits for.  In particular it is never     *)
(* suspended between the completion of the authorization and the opening   *)
(* of the panel, nor between the completion of the write and the panel     *)
(* update.                                                                 *)
(***************************************************************************)
C17_YieldPoints ==
  \A r \in Runs :
    Started(r) /\ pc[r] \notin Terminal
    => LET last == log[r][Len(log[r])].op IN
       /\ last \in {"authorizeRHDA", "stackAnalysisService", "writeFile"}
       /\ last = "authorizeRHDA" <=> pc[r] = "authorizing"
       /\ last = "stackAnalysisService" <=> pc[r] = "analyzing"
       /\ last = "writeFile" <=> pc[r] \in {"writing", "opened", "written"}
       /\ Has(r, "authorized") => Has(r, "createOrShowWebviewPanel")
       /\ ~Has(r, "writeResolved") /\ ~Has(r, "writeRejected")

C17_Witness ==
  \E a, b \in Runs :
    /\ a < b
    /\ pc[a] = "authorizing" /\ log[a][Len(log[a])].op = "authorizeRHDA"
    /\ pc[b] = "written"
    /\ ~currentPanel

(***************************************************************************)
(* C18: the panel receives a run's payload only after that run's write has *)
(* completed without error.  Every payload the panel has received is the   *)
(* payload of a run whose write callback ran without error before the      *)
(* update, and a run whose write is pending or has failed has made no      *)
(* update call with its payload.                                           *)
(***************************************************************************)
C18_PanelAfterWrite ==
  /\ \A i \in DOMAIN panelLog :
       LET r == panelLog[i][1]
           d == panelLog[i][2]
       IN d # "error"
          => /\ d = resp[r]
             /\ pc[r] = "resolved" /\ err[r] = None
             /\ Has(r, "writeResolved") /\ ~Has(r, "writeRejected")
             /\ \A j \in PosEv(r, "doUpdatePanel", d) : Pos(r, "writeResolved") < j
  /\ \A r \in Runs :
       /\ \A j \in DOMAIN log[r] :
            log[r][j].op = "updateWebviewPanel" /\ log[r][j].arg # "error"
            => /\ log[r][j].arg = resp[r]
               /\ Has(r, "writeResolved") /\ Pos(r, "writeResolved") < j
       /\ pc[r] \in {"analyzing", "writing", "opened", "written"} \/ err[r] # None
            => /\ \A d \in Payloads : PosEv(r, "updateWebviewPanel", d) = {}
               /\ \A i \in DOMAIN PanelData(r) : PanelData(r)[i] = "error"

C18_Witness ==
  \E a, b \in Runs :
    /\ panelLog = << <<a, resp[a]>> >>
    /\ pc[a] = "resolved" /\ Has(a, "writeResolved")
    /\ pc[b] = "written" /\ err[b] = WriteError /\ currentPanel

(***************************************************************************)
(* C19: a run without a successful analysis call (unsupported manifest,    *)
(* failed authorization, rejected analysis) leaves the report file and the *)
(* directories alone.  No step of such a run changes them, such a run      *)
(* calls neither mkdirSync nor fs.writeFile and is never the last writer,  *)
(* and every change of the file or the directories is a step of a run      *)
(* whose analysis call resolved.                                           *)
(***************************************************************************)
C19_FailedRunLeavesFile ==
  [][/\ \A r \in Runs :
          ~Has(r, "serviceResolved")'
          => /\ pc'[r] # pc[r] => files' = files /\ dirs' = dirs
             /\ ~Has(r, "mkdirSync")' /\ ~Has(r, "writeFile")'
             /\ lastWriter' # r
     /\ files' # files \/ dirs' # dirs
          => \E r \in Runs : pc'[r] # pc[r] /\ Has(r, "serviceResolved")']_vars

C19_Witness ==
  \E a, b \in Runs :
    /\ pc[a] = "rejected" /\ Has(a, "serviceRejected")
    /\ pc[b] = "rejected" /\ Has(b, "authorizeFailed")
    /\ FileHolds("R0")
    /\ lastWriter = 0

(***************************************************************************)
(* C20 as stated: when two overlapping invocations have both succeeded,    *)
(* each having delivered its payload to the open panel, the report file    *)
(* holds the payload the panel received last.                              *)
(***************************************************************************)
C20_Original ==
  \A a, b \in Runs :
    (/\ a # b /\ a \notin doneBefore[b] /\ b \notin doneBefore[a]
     /\ \A r \in Runs : pc[r] \in Terminal
     /\ pc[a] = "resolved" /\ pc[b] = "resolved"
     /\ PanelData(a) = << resp[a] >> /\ PanelData(b) = << resp[b] >>
     /\ panelLog # <<>> /\ currentPanel)
    => FileHolds(panelLog[Len(panelLog)][2])

(***************************************************************************)
(* C20 amended: when the later of two overlapping successful invocations   *)
(* completes with the panel open, the report file holds the payload the    *)
(* panel has just received, provided no other invocation opened or wrote   *)
(* the file between this invocation's opening of it and its completion.    *)
(***************************************************************************)
C20_FileAndPanelAgree ==
  [][\A a, b \in Runs :
       (/\ a # b /\ a \notin doneBefore[b] /\ b \notin doneBefore[a]
        /\ pc[a] = "resolved" /\ Has(a, "writeResolved")
        /\ pc[b] = "written" /\ pc'[b] = "resolved"
        /\ currentPanel
        /\ b \notin disturbed)
       => /\ panelLog' # <<>>
          /\ panelLog'[Len(panelLog')] = <<b, resp[b]>>
          /\ FileHolds(resp[b])']_vars

C20_Witness ==
  \E a, b \in Runs :
    /\ a # b /\ a \notin doneBefore[b] /\ b \notin doneBefore[a]
    /\ pc[a] = "resolved" /\ pc[b] = "resolved"
    /\ resp[a] = "R2" /\ resp[b] = "R1"
    /\ panelLog = << <<a, "R2">>, <<b, "R1">> >>
    /\ lastWriter = b
    /\ FileHolds("R1")
    /\ currentPanel

====
